---- MODULE Spec2Model ----
(***************************************************************************)
(* Client onboarding form (src/app/page.js): the zod validation schema,    *)
(* the query-parameter pre-fill, the service checkboxes and the submit     *)
(* lifecycle of the App component.                                         *)
(*                                                                         *)
(* The text a user types is a sequence of one-character strings; service   *)
(* labels and query strings are strings.  Instants are minutes since the   *)
(* epoch (UTC); a date string "YYYY-MM-DD" is the number of its calendar   *)
(* day.  JavaScript null is the empty tuple, a message is a tuple of text  *)
(* pieces, and a non-null object is the one-element tuple holding it.      *)
(*                                                                         *)
(* A handler runs to its next await as one step.  The state a handler sets *)
(* reaches the DOM (the disabled attributes) in a later step, Render: the  *)
(* submit handler itself tests nothing before it calls fetch.              *)
(***************************************************************************)
EXTENDS Integers, Sequences, FiniteSets, TLC

VARIABLES
    form,             \* react-hook-form's current field values
    errors,           \* formState.errors: field name -> message (<<>> when none)
    isSubmitting,     \* useState flags of App
    isSubmitted,
    submissionError,
    submittedData,
    disabled,         \* the isSubmitting value committed to the DOM (disabled=...)
    mounted,          \* the pre-fill effect has run
    search,           \* the "service" query parameter of window.location.search
    apiUrl,           \* process.env.NEXT_PUBLIC_ONBOARD_URL is set
    now,              \* the clock, minutes UTC
    tz,               \* local time minus UTC, minutes
    att,              \* the submit attempts: slot -> [pc, result, payload, status]
    nAttempts,        \* submit events handled so far
    netCalls          \* fetch calls issued so far

vars == <<form, errors, isSubmitting, isSubmitted, submissionError, submittedData,
          disabled, mounted, search, apiUrl, now, tz, att, nAttempts, netCalls>>

-----------------------------------------------------------------------------
(* Bounds of the model *)

MaxAttempts == 2

Attempts == 1..MaxAttempts

-----------------------------------------------------------------------------
(* Program constants *)

NameMin == 2
NameMax == 80
CompanyMin == 2
CompanyMax == 100
ServicesMin == 1
BudgetMin == 100
BudgetMax == 1000000
EmailMin == 1
MinPerDay == 1440

SERVICE_OPTIONS == <<"UI/UX", "Branding", "Web Dev", "Mobile App">>

Fields == {"fullName", "email", "companyName", "services", "budgetUsd",
           "projectStartDate", "acceptTerms"}

NULL == <<>>

\* A message is a sequence of text pieces; null is the empty sequence.
Msg(text) == <<text>>

-----------------------------------------------------------------------------
(* Values *)

Range(s) == {s[i] : i \in DOMAIN s}

Includes(s, x) == \E i \in DOMAIN s : s[i] = x

Filter(s, x) == SelectSeq(s, LAMBDA y : y # x)

Rep(c, n) == [i \in 1..n |-> c]

\* A budget value as JavaScript sees it: the string "", undefined, NaN, or a
\* number n (whole is FALSE for a number with a fractional part, n + 1/2).
BEmpty == [kind |-> "empty", n |-> 0, whole |-> TRUE]
BUndef == [kind |-> "undefined", n |-> 0, whole |-> TRUE]
BNaN == [kind |-> "nan", n |-> 0, whole |-> TRUE]
BNum(n) == [kind |-> "number", n |-> n, whole |-> TRUE]
BFrac(n) == [kind |-> "number", n |-> n, whole |-> FALSE]

\* A date input's value: "" or a calendar day.
DEmpty == [kind |-> "empty", day |-> 0]
DDay(d) == [kind |-> "date", day |-> d]

Letters == {"a","b","c","d","e","f","g","h","i","j","k","l","m","n","o","p","q",
            "r","s","t","u","v","w","x","y","z",
            "A","B","C","D","E","F","G","H","I","J","K","L","M","N","O","P","Q",
            "R","S","T","U","V","W","X","Y","Z"}

DigitChars == <<"0","1","2","3","4","5","6","7","8","9">>

NameChars == Letters \cup {" ", "'", "-"}

-----------------------------------------------------------------------------
(* The clock and dates *)

\* new Date("YYYY-MM-DD"): the date-only form is parsed as UTC midnight.
ParseDate(d) == d.day * MinPerDay

\* new Date(new Date().setHours(0, 0, 0, 0)): local midnight of the current day.
LocalMidnight(t, off) == (((t + off) \div MinPerDay) * MinPerDay) - off

\* The local calendar day at instant t.
LocalDay(t, off) == (t + off) \div MinPerDay

\* toISOString().split("T")[0]: the UTC calendar day of an instant.
IsoDay(t) == t \div MinPerDay

\* The refinement of projectStartDate; an unparseable date compares false.
StartDateOk(d, t, off) ==
    /\ d.kind = "date"
    /\ ParseDate(d) >= LocalMidnight(t, off)

-----------------------------------------------------------------------------
(* formSchema: each field's first issue message, <<>> when the field passes *)

NameError(s) ==
    IF Len(s) < NameMin THEN Msg("Full name must be at least 2 characters.")
    ELSE IF Len(s) > NameMax THEN Msg("Full name cannot exceed 80 characters.")
    ELSE IF ~(Len(s) >= 1 /\ \A i \in DOMAIN s : s[i] \in NameChars)
         THEN Msg("Full name must only contain letters, spaces, hyphens, or apostrophes.")
    ELSE NULL

\* z.string().email(): one "@", a non-empty local part, a dotted domain.
IsEmail(s) ==
    \E i \in DOMAIN s :
        /\ s[i] = "@"
        /\ i > 1
        /\ \A j \in DOMAIN s : s[j] = "@" => j = i
        /\ \E k \in (i + 2)..(Len(s) - 1) : s[k] = "."
        /\ \A j \in DOMAIN s : s[j] # " "

EmailError(s) ==
    IF ~IsEmail(s) THEN Msg("Please enter a valid email address.")
    ELSE IF Len(s) < EmailMin THEN Msg("Email is required.")
    ELSE NULL

CompanyError(s) ==
    IF Len(s) < CompanyMin THEN Msg("Company name must be at least 2 characters.")
    ELSE IF Len(s) > CompanyMax THEN Msg("Company name cannot exceed 100 characters.")
    ELSE NULL

\* The services rule left out.
ServicesErrorAccepting(s) == NULL

ServicesError(s) ==
    IF Len(s) < ServicesMin THEN Msg("Please select at least one service.") ELSE NULL

\* z.union([z.number().int(...), z.literal("")]): which values the union takes,
\* and whether it aborts (no option matches) or only flags the value.
BudgetUnionAborts(b) == b.kind = "nan"

BudgetRefine(b) ==
    \/ b.kind = "empty"
    \/ b.kind = "number" /\ b.n >= BudgetMin /\ b.n <= BudgetMax
                         /\ (b.whole \/ b.n < BudgetMax)

BudgetError(b) ==
    IF BudgetUnionAborts(b) THEN Msg("Invalid input")
    ELSE IF b.kind = "number" /\ ~b.whole THEN Msg("Budget must be an integer.")
    ELSE IF ~BudgetRefine(b) THEN Msg("Budget must be between 100 and 1,000,000 USD.")
    ELSE NULL

\* .transform((val) => (val === "" ? undefined : Number(val)))
BudgetTransform(b) == IF b.kind = "empty" THEN BUndef ELSE b

StartDateError(d, t, off) ==
    IF d.kind = "empty" THEN Msg("Project start date is required.")
    ELSE IF ~StartDateOk(d, t, off) THEN Msg("Project start date must be today or later.")
    ELSE NULL

TermsError(a) ==
    IF ~a THEN Msg("You must accept the terms and conditions.") ELSE NULL

\* zodResolver(formSchema): every field's issues are collected together.
Resolver(f, t, off) ==
    [fullName |-> NameError(f.fullName),
     email |-> EmailError(f.email),
     companyName |-> CompanyError(f.companyName),
     services |-> ServicesError(f.services),
     budgetUsd |-> BudgetError(f.budgetUsd),
     projectStartDate |-> StartDateError(f.projectStartDate, t, off),
     acceptTerms |-> TermsError(f.acceptTerms)]

NoErrors == [k \in Fields |-> NULL]

Valid(f, t, off) == Resolver(f, t, off) = NoErrors

\* The data handed to onSubmit: the schema's output.
Parsed(f) == [f EXCEPT !.budgetUsd = BudgetTransform(f.budgetUsd)]

-----------------------------------------------------------------------------
(* The query-parameter pre-fill *)

\* URLSearchParams.get: percent-decodes once and reads "+" as a space.
UrlGet(raw) ==
    CASE raw = "UI%2FUX" -> "UI/UX"
      [] raw = "Web+Dev" -> "Web Dev"
      [] raw = "Mobile%2520App" -> "Mobile%20App"
      [] OTHER -> raw

DecodeURIComponent(s) ==
    CASE s = "Mobile%20App" -> "Mobile App"
      [] OTHER -> s

\* The services value the effect sets, or the current one when it sets none.
Prefill(raw, current) ==
    IF raw # "" /\ UrlGet(raw) # ""
       /\ Includes(SERVICE_OPTIONS, DecodeURIComponent(UrlGet(raw)))
    THEN <<DecodeURIComponent(UrlGet(raw))>>
    ELSE current

-----------------------------------------------------------------------------
(* onSubmit's pure parts *)

RECURSIVE Digits(_)
Digits(n) == IF n < 10 THEN <<DigitChars[n + 1]>>
             ELSE Digits(n \div 10) \o <<DigitChars[(n % 10) + 1]>>

ConfigError ==
    Msg("API URL is not configured. Please set the NEXT_PUBLIC_ONBOARD_URL environment variable.")

ApiError(status) == <<"API Error: ">> \o Digits(status) \o <<" - An error occurred.">>

NetworkError == Msg("Network Error: Could not connect to the API.")

\* response.ok
ResponseOk(status) == status >= 200 /\ status <= 299

\* data.budgetUsd ? Number(data.budgetUsd) : undefined
PayloadBudget(b) == IF b.kind = "number" /\ (b.n # 0 \/ ~b.whole) THEN b ELSE BUndef

\* new Date(data.projectStartDate).toISOString().split("T")[0]
PayloadDate(d) == DDay(IsoDay(ParseDate(d)))

Payload(data) ==
    [data EXCEPT !.budgetUsd = PayloadBudget(data.budgetUsd),
                 !.projectStartDate = PayloadDate(data.projectStartDate)]

\* JSON.stringify(payload) leaves out the properties whose value is undefined.
BodyKeys(p) == {k \in Fields : k = "budgetUsd" => p.budgetUsd.kind # "undefined"}

-----------------------------------------------------------------------------
(* State *)

defaultValues ==
    [fullName |-> <<>>, email |-> <<>>, companyName |-> <<>>, services |-> <<>>,
     budgetUsd |-> BEmpty, projectStartDate |-> DEmpty, acceptTerms |-> FALSE]

IdleAttempt == [pc |-> "idle", result |-> "none", payload |-> NULL, status |-> 0]

\* What the user and the environment supply.
SearchInputs == {"", "Mobile%2520App"}
NameInputs == {<<"A", "l">>}
EmailInputs == {<<"a", "@", "b", ".", "c">>}
CompanyInputs == {<<"A", "B">>}
BudgetInputs == {BNum(BudgetMin)}
ToggleInputs == {"UI/UX"}
StatusInputs == {200, 500}
Today == 10
DayInputs == {Today}

Init ==
    /\ form = defaultValues
    /\ errors = NoErrors
    /\ isSubmitting = FALSE
    /\ isSubmitted = FALSE
    /\ submissionError = NULL
    /\ submittedData = NULL
    /\ disabled = FALSE
    /\ mounted = FALSE
    /\ search \in SearchInputs
    /\ apiUrl \in BOOLEAN
    /\ now = (Today * MinPerDay) + 720
    /\ tz = 0
    /\ att = [i \in Attempts |-> IdleAttempt]
    /\ nAttempts = 0
    /\ netCalls = 0

-----------------------------------------------------------------------------
(* The pre-fill effect and the inputs *)

env == <<search, apiUrl, now, tz>>
react == <<isSubmitting, isSubmitted, submissionError, submittedData>>
flight == <<att, nAttempts, netCalls>>

\* useEffect(() => {...}, [setValue]): runs once after the first render.
PrefillEffect ==
    /\ ~mounted
    /\ mounted' = TRUE
    /\ form' = [form EXCEPT !.services = Prefill(search, form.services)]
    /\ UNCHANGED <<errors, react, disabled, env, flight>>

\* An input registered with disabled={isSubmitting} takes a new value.
SetField(field, value) ==
    /\ mounted
    /\ ~disabled
    /\ form[field] # value
    /\ form' = [form EXCEPT ![field] = value]
    /\ UNCHANGED <<errors, react, disabled, mounted, env, flight>>

\* The checkbox handler appending whether or not the label is there.
NewServicesAlwaysAppend(value, label) == Append(value, label)

\* ServiceCheckbox's onChange; this checkbox carries no disabled attribute.
NewServices(value, label) ==
    IF ~Includes(value, label) THEN Append(value, label) ELSE Filter(value, label)

ToggleService(label) ==
    /\ mounted
    /\ form' = [form EXCEPT !.services = NewServices(form.services, label)]
    /\ UNCHANGED <<errors, react, disabled, mounted, env, flight>>

Edit ==
    \/ \E v \in NameInputs : SetField("fullName", v)
    \/ \E v \in EmailInputs : SetField("email", v)
    \/ \E v \in CompanyInputs : SetField("companyName", v)
    \/ \E v \in BudgetInputs : SetField("budgetUsd", v)
    \/ \E d \in DayInputs : SetField("projectStartDate", DDay(d))
    \/ SetField("acceptTerms", ~form.acceptTerms)
    \/ \E label \in ToggleInputs : ToggleService(label)

\* React commits the isSubmitting state to the DOM.
Render ==
    /\ disabled # isSubmitting
    /\ disabled' = isSubmitting
    /\ UNCHANGED <<form, errors, react, mounted, env, flight>>

-----------------------------------------------------------------------------
(* handleSubmit(onSubmit) *)

\* The endpoint check left out.
NoApiUrlIgnored == FALSE

\* if (!apiUrl)
NoApiUrl == ~apiUrl

\* reset(): the field values go back to defaultValues.
AfterReset(f) == defaultValues

Outstanding == {i \in Attempts : att[i].pc = "fetching"}

\* The submit button and the text inputs are usable.
CanSubmit ==
    /\ mounted
    /\ ~disabled
    /\ nAttempts < MaxAttempts

\* The resolver reports issues: onSubmit is not called.
SubmitInvalid ==
    /\ CanSubmit
    /\ ~Valid(form, now, tz)
    /\ errors' = Resolver(form, now, tz)
    /\ nAttempts' = nAttempts + 1
    /\ att' = [att EXCEPT ![nAttempts + 1] =
                  [pc |-> "done", result |-> "invalid", payload |-> NULL, status |-> 0]]
    /\ UNCHANGED <<form, react, disabled, mounted, env, netCalls>>

\* onSubmit(data) up to its return (no apiUrl) or up to the await of fetch.
OnSubmit(i, data) ==
    /\ isSubmitted' = FALSE
    /\ IF NoApiUrl
       THEN /\ isSubmitting' = FALSE
            /\ submissionError' = ConfigError
            /\ att' = [att EXCEPT ![i] =
                          [pc |-> "done", result |-> "config", payload |-> NULL,
                           status |-> 0]]
            /\ netCalls' = netCalls
       ELSE /\ isSubmitting' = TRUE
            /\ submissionError' = NULL
            /\ att' = [att EXCEPT ![i] =
                          [pc |-> "fetching", result |-> "none",
                           payload |-> <<Payload(data)>>, status |-> 0]]
            /\ netCalls' = netCalls + 1
    /\ UNCHANGED submittedData

SubmitValid ==
    /\ CanSubmit
    /\ Valid(form, now, tz)
    /\ errors' = NoErrors
    /\ nAttempts' = nAttempts + 1
    /\ OnSubmit(nAttempts + 1, Parsed(form))
    /\ UNCHANGED <<form, disabled, mounted, env>>

\* fetch resolves with a response: the rest of the try block, then finally.
Respond(i, status) ==
    /\ att[i].pc = "fetching"
    /\ IF ResponseOk(status)
       THEN /\ isSubmitted' = TRUE
            /\ submittedData' = att[i].payload
            /\ form' = AfterReset(form)
            /\ errors' = NoErrors
            /\ UNCHANGED submissionError
       ELSE /\ submissionError' = ApiError(status)
            /\ UNCHANGED <<isSubmitted, submittedData, form, errors>>
    /\ isSubmitting' = FALSE
    /\ att' = [att EXCEPT ![i] =
                  [@ EXCEPT !.pc = "done",
                            !.result = IF ResponseOk(status) THEN "ok" ELSE "http",
                            !.status = status]]
    /\ UNCHANGED <<disabled, mounted, env, nAttempts, netCalls>>

\* The catch block without the finally block.
FaultWithoutFinally(i) ==
    /\ att[i].pc = "fetching"
    /\ submissionError' = NetworkError
    /\ att' = [att EXCEPT ![i] = [@ EXCEPT !.pc = "done", !.result = "fault"]]
    /\ UNCHANGED <<form, errors, isSubmitting, isSubmitted, submittedData, disabled,
                   mounted, env, nAttempts, netCalls>>

\* fetch rejects: the catch block, then finally.
Fault(i) ==
    /\ att[i].pc = "fetching"
    /\ submissionError' = NetworkError
    /\ isSubmitting' = FALSE
    /\ att' = [att EXCEPT ![i] = [@ EXCEPT !.pc = "done", !.result = "fault"]]
    /\ UNCHANGED <<form, errors, isSubmitted, submittedData, disabled, mounted, env,
                   nAttempts, netCalls>>

Settle == \E i \in Attempts : Fault(i) \/ \E status \in StatusInputs : Respond(i, status)

Next ==
    \/ PrefillEffect
    \/ Edit
    \/ Render
    \/ SubmitInvalid
    \/ SubmitValid
    \/ Settle

Spec == Init /\ [][Next]_vars

\* The submit lifecycle with an endpoint configured, where the network settles
\* every call and React commits every state change.
FairInit == Init /\ apiUrl /\ search = ""

FairSpec == FairInit /\ [][Next]_vars /\ WF_vars(Settle) /\ WF_vars(Render)

-----------------------------------------------------------------------------
(* The pre-fill and the checkboxes alone, over every option and more query  *)
(* strings                                                                  *)

AllSearchInputs ==
    {"", "Branding", "UI%2FUX", "Web+Dev", "Mobile%2520App", "Logo", "branding"}

ServicesInit ==
    /\ form = defaultValues
    /\ errors = NoErrors
    /\ isSubmitting = FALSE
    /\ isSubmitted = FALSE
    /\ submissionError = NULL
    /\ submittedData = NULL
    /\ disabled = FALSE
    /\ mounted = FALSE
    /\ search \in AllSearchInputs
    /\ apiUrl = TRUE
    /\ now = (Today * MinPerDay) + 720
    /\ tz = 0
    /\ att = [i \in Attempts |-> IdleAttempt]
    /\ nAttempts = 0
    /\ netCalls = 0

ToggleAny == \E label \in Range(SERVICE_OPTIONS) : ToggleService(label)

ServicesNext ==
    \/ PrefillEffect
    \/ ToggleAny

ServicesSpec == ServicesInit /\ [][ServicesNext]_vars

-----------------------------------------------------------------------------
(* The schema alone, over candidate values, clocks and UTC offsets *)

Jane == <<"J","a","n","e"," ","O","'","B","r","i","e","n">>
AnneMarie == <<"A","n","n","e","-","M","a","r","i","e">>
John123 == <<"J","o","h","n","1","2","3">>

SchemaNames == {<<>>, <<"J">>, Jane, AnneMarie, John123, Rep("a", NameMax),
                Rep("a", NameMax + 1)}
SchemaBudgets == {BEmpty, BUndef, BNaN, BNum(BudgetMin - 1), BNum(BudgetMin),
                  BNum(BudgetMax), BNum(BudgetMax + 1), BFrac(BudgetMin)}
SchemaOffsets == {-720, -300, 0, 330, 840}
SchemaTimes == {Today * MinPerDay, (Today * MinPerDay) + 720,
                (Today * MinPerDay) + MinPerDay - 1}
SchemaDayShifts == {-1, 0, 1}

validValues ==
    [fullName |-> Jane, email |-> <<"a", "@", "b", ".", "c">>,
     companyName |-> <<"A", "B">>, services |-> <<"UI/UX">>,
     budgetUsd |-> BEmpty, projectStartDate |-> DEmpty, acceptTerms |-> TRUE]

SchemaInit ==
    /\ now \in SchemaTimes
    /\ tz \in SchemaOffsets
    /\ \E base \in {validValues, defaultValues}, name \in SchemaNames,
          b \in SchemaBudgets,
          d \in {DEmpty} \cup {DDay(LocalDay(now, tz) + k) : k \in SchemaDayShifts} :
          form = [base EXCEPT !.fullName = name, !.budgetUsd = b,
                              !.projectStartDate = d]
    /\ errors = NoErrors
    /\ isSubmitting = FALSE
    /\ isSubmitted = FALSE
    /\ submissionError = NULL
    /\ submittedData = NULL
    /\ disabled = FALSE
    /\ mounted = TRUE
    /\ search = ""
    /\ apiUrl = TRUE
    /\ att = [i \in Attempts |-> IdleAttempt]
    /\ nAttempts = 0
    /\ netCalls = 0

\* formSchema applied to the candidate: the issues, and for an accepted
\* candidate the payload its output serializes to.
Validate ==
    /\ nAttempts = 0
    /\ nAttempts' = 1
    /\ errors' = Resolver(form, now, tz)
    /\ att' = [att EXCEPT ![1] =
                  IF Valid(form, now, tz)
                  THEN [pc |-> "done", result |-> "valid",
                        payload |-> <<Payload(Parsed(form))>>, status |-> 0]
                  ELSE [pc |-> "done", result |-> "invalid", payload |-> NULL,
                        status |-> 0]]
    /\ UNCHANGED <<form, react, disabled, mounted, env, netCalls>>

SchemaSpec == SchemaInit /\ [][Validate]_vars

-----------------------------------------------------------------------------
(* Properties *)

NoDuplicates(s) == \A i, j \in DOMAIN s : s[i] = s[j] => i = j

\* s holds t as a run of consecutive pieces.
Contains(s, t) ==
    \E k \in 0..(Len(s) - Len(t)) : \A j \in DOMAIN t : s[k + j] = t[j]

IsSubmitStep == nAttempts' = nAttempts + 1

OkStep(i) == att[i].pc = "fetching" /\ att'[i].pc = "done" /\ att'[i].result = "ok"

HttpStep(i) == att[i].pc = "fetching" /\ att'[i].pc = "done" /\ att'[i].result = "http"

FaultStep(i) == att[i].pc = "fetching" /\ att'[i].pc = "done" /\ att'[i].result = "fault"

\* C1: at most one request is outstanding at any time, whatever the
\* interleaving of submit attempts, renders and responses.
C1_SingleFlight == Cardinality(Outstanding) <= 1

\* C2: with no endpoint configured no network call is ever issued, and a
\* submit of a valid form ends at once in the failed state: the configuration
\* message is set, isSubmitting and isSubmitted are false.
C2_NoEndpointFails ==
    [][/\ ~apiUrl => netCalls' = 0
       /\ (IsSubmitStep /\ ~apiUrl /\ Valid(form, now, tz)) =>
              /\ submissionError' # NULL
              /\ submissionError' = ConfigError
              /\ ~isSubmitting'
              /\ ~isSubmitted']_vars

C2_Witness ==
    /\ ~apiUrl
    /\ netCalls = 0
    /\ \E i \in Attempts : att[i].result = "config"
    /\ submissionError = ConfigError
    /\ ~isSubmitting
    /\ ~isSubmitted

\* C3: a 2xx response leaves the succeeded state: isSubmitted true,
\* submittedData the payload that was sent (never null while isSubmitted is
\* true), no error message, isSubmitting false, every field at its default.
C3_SuccessState ==
    [][/\ \A i \in Attempts : OkStep(i) =>
              /\ isSubmitted'
              /\ submittedData' = att[i].payload
              /\ submissionError' = NULL
              /\ ~isSubmitting'
              /\ form' = defaultValues
       /\ isSubmitted' => submittedData' # NULL]_vars

\* C4: a non-2xx response leaves the failed state: an error message holding
\* the status code, isSubmitted false, isSubmitting false, and the field
\* values untouched.
C4_FailureState ==
    [][\A i \in Attempts : HttpStep(i) =>
           /\ Contains(submissionError', Digits(att'[i].status))
           /\ ~isSubmitted'
           /\ ~isSubmitting'
           /\ form' = form]_vars

\* C5: a submit attempt with a value that fails its rule (zero services, or a
\* field still at its empty default, or terms not accepted) sets that field's
\* error message, issues no network call and does not enter submitting.
C5_InvalidSubmitBlocked ==
    [][(/\ IsSubmitStep
        /\ \/ form.services = <<>>
           \/ form.fullName = <<>>
           \/ form.email = <<>>
           \/ form.companyName = <<>>
           \/ form.projectStartDate = DEmpty
           \/ ~form.acceptTerms) =>
           /\ form.services = <<>> => errors'.services # NULL
           /\ form.fullName = <<>> => errors'.fullName # NULL
           /\ form.email = <<>> => errors'.email # NULL
           /\ form.companyName = <<>> => errors'.companyName # NULL
           /\ form.projectStartDate = DEmpty => errors'.projectStartDate # NULL
           /\ ~form.acceptTerms => errors'.acceptTerms # NULL
           /\ netCalls' = netCalls
           /\ isSubmitting' = isSubmitting
           /\ att'[nAttempts'].pc # "fetching"]_vars

C5_Witness ==
    /\ form.services = <<>>
    /\ form.fullName # <<>>
    /\ form.acceptTerms
    /\ \E i \in Attempts : att[i].result = "invalid"
    /\ errors.services # NULL
    /\ errors.fullName = NULL
    /\ netCalls = 0
    /\ ~isSubmitting

\* C6: the schema accepts an empty budget in each of its forms ("", the NaN a
\* cleared number input yields, undefined) and leaves it out of the body, and
\* accepts a whole number exactly when it lies in [100, 1000000].
C6_BudgetRule ==
    nAttempts = 1 =>
        /\ form.budgetUsd.kind \in {"empty", "nan", "undefined"} =>
               /\ errors.budgetUsd = NULL
               /\ att[1].result = "valid" => "budgetUsd" \notin BodyKeys(att[1].payload[1])
        /\ (form.budgetUsd.kind = "number" /\ form.budgetUsd.whole) =>
               (errors.budgetUsd = NULL <=>
                    (form.budgetUsd.n >= 100 /\ form.budgetUsd.n <= 1000000))

\* C7: at every time of day and UTC offset the schema accepts today's local
\* calendar date and rejects yesterday's.
C7_DateOnly ==
    nAttempts = 1 =>
        /\ form.projectStartDate = DDay(LocalDay(now, tz)) =>
               errors.projectStartDate = NULL
        /\ form.projectStartDate = DDay(LocalDay(now, tz) - 1) =>
               errors.projectStartDate # NULL

\* C8: at most one of isSubmitting, isSubmitted and submissionError # null
\* holds in every reachable state.
C8_OneSubmissionState ==
    /\ ~(isSubmitting /\ isSubmitted)
    /\ ~(isSubmitting /\ submissionError # NULL)
    /\ ~(isSubmitted /\ submissionError # NULL)

====
